---- MODULE Spec2Model ----
(***************************************************************************)
(* Orzion AI gateway: sliding-window rate limiter over one shared          *)
(* PostgreSQL connection, rotating credential pool, retry dispatcher and   *)
(* the chat handler that ties them together.                               *)
(***************************************************************************)
EXTENDS Integers, Sequences, FiniteSets, TLC

\* ------------------------------------------------------------------ bounds
NumReqs == 2          \* concurrent callers / requests in flight
MaxCalls == 3         \* total checkRateLimit calls or chat requests started
MaxLimit == 2         \* largest finite limit an account declares
MaxInc == 2           \* largest token increment of one check
MaxFaults == 1        \* spontaneous statement failures injected
MaxUsage == 1         \* largest requestsToday the account store reports
MaxRequests == 2      \* chat requests received in one run
MaxTokens == 1        \* largest token estimate of a chat request

\* ------------------------------------------------- constants of the source
MAX_RETRIES == 3
RETRY_DELAY_MS == 1000
MaxKeys == 3
SecondMs == 1000
MinuteMs == 60000
DayMs == 86400000
Unlimited == 0 - 1

Reqs == 1 .. NumReqs
Dims == {"requests_per_second", "daily_requests", "tokens_per_minute"}
Slots == Reqs \X Dims

\* instants at which Date.now() is sampled. At MinuteMs the per-second window of
\* instant 0 has expired, the per-minute window has just rolled over, and the
\* daily window is still open.
TimePoints == {0, MinuteMs}

WindowMs(d) ==
    CASE d = "requests_per_second" -> SecondMs
      [] d = "daily_requests" -> DayMs
      [] d = "tokens_per_minute" -> MinuteMs

\* Math.floor(now / windowMs)
WindowOf(t, d) == t \div WindowMs(d)

\* a logical key together with the window that instant t falls in
WindowKey(t, d) == <<d, WindowOf(t, d)>>

\* variant: the window index is left out of the stored key
DbKeyNoWindow(t, d) == <<d, 0>>

\* `ratelimit:${key}:${window}`
DbKey(t, d) == <<d, WindowOf(t, d)>>

\* (window + 1) * windowMs
ResetTimeOf(t, d) == (WindowOf(t, d) + 1) * WindowMs(d)

DbKeys == {WindowKey(t, d) : t \in TimePoints, d \in Dims}

Max(a, b) == IF a >= b THEN a ELSE b

VARIABLES
    now,         \* Date.now()
    pgClient,    \* "null" | "connected" | "broken"
    txState,     \* session transaction state: "idle" | "active" | "aborted"
    table,       \* rate_limits as the session sees it: set of rows
    committed,   \* rate_limits as durably committed
    queue,       \* pg client query queue: slots with one query pending, FIFO
    chk,         \* per slot: the checkRateLimit invocation running there
    calls,       \* number of calls started (bounds the run)
    faults,      \* number of injected statement failures
    applied,     \* ghost: per db key, sum of increments of checks that reached the store
    limits,      \* declared limits of the account, per dimension
    clean        \* ghost: no storage error has happened so far

rlVars == <<now, pgClient, txState, table, committed, queue, chk, calls, faults, applied, clean, limits>>

VARIABLES
    API_KEY_CONFIG,  \* per model: keys (their number), currentIndex, failureCount
    req,             \* per request slot: the handler invocation running there
    failedKeys       \* ghost: per model, key indices of failed upstream attempts since the last reset

gwVars == <<API_KEY_CONFIG, req, failedKeys>>
vars == <<now, pgClient, txState, table, committed, queue, chk, calls, faults, applied,
          clean, limits, API_KEY_CONFIG, req, failedKeys>>

NoRes == [allowed |-> TRUE, count |-> 0, remaining |-> 0, resetTime |-> 0,
          error |-> "none", limit |-> 0]

\* failed is a ghost: some statement of the invocation was rejected
IdleChk == [pc |-> "idle", limit |-> 0, increment |-> 0, now |-> 0,
            currentCount |-> 0, err |-> "none", failed |-> FALSE, res |-> NoRes]

\* ---------------------------------------------------------------- storage
RowOf(tab, k) == {r \in tab : r.key = k}
HasRow(tab, k) == RowOf(tab, k) # {}
CountOf(tab, k) == IF HasRow(tab, k) THEN (CHOOSE r \in RowOf(tab, k) : TRUE).count ELSE 0

\* variant: rows are collected a minute before their reset time
DeleteExpiredEarly(tab, t) == {r \in tab : ~(r.reset_time <= t + MinuteMs)}

\* DELETE FROM rate_limits WHERE reset_time < $1
DeleteExpired(tab, t) == {r \in tab : ~(r.reset_time < t)}

\* INSERT INTO rate_limits (key, count, reset_time)
InsertRow(tab, k, c, rt) == tab \cup {[key |-> k, count |-> c, reset_time |-> rt]}

\* variant: a count over the declared limit is not written
UpdateRowWithinLimit(tab, k, c) ==
    IF c > limits[k[1]] THEN tab
    ELSE {IF r.key = k THEN [r EXCEPT !.count = c] ELSE r : r \in tab}

\* variant: the new count is not written back
UpdateRowNoop(tab, k, c) == tab

\* UPDATE rate_limits SET count = $1 WHERE key = $2  (no row: nothing changes)
UpdateRow(tab, k, c) ==
    {IF r.key = k THEN [r EXCEPT !.count = c] ELSE r : r \in tab}

\* a write outside a transaction block is committed at once
Durable(newTab) == IF txState = "active" THEN committed ELSE newTab

\* ------------------------------------------------------- checkRateLimit
\* variant: the outer catch rejects instead of allowing
FailClosed(c, d, msg) ==
    [allowed |-> FALSE, count |-> 0, remaining |-> c.limit,
     resetTime |-> now + WindowMs(d), error |-> msg, limit |-> 0]

\* the fail-open result of the outer catch
FailOpen(c, d, msg) ==
    [allowed |-> TRUE, count |-> 0, remaining |-> c.limit,
     resetTime |-> now + WindowMs(d), error |-> msg, limit |-> 0]

\* variant: the comparison with the limit is strict
VerdictStrict(c, d) ==
    [allowed |-> c.currentCount < c.limit,
     count |-> c.currentCount,
     remaining |-> Max(0, c.limit - c.currentCount),
     resetTime |-> ResetTimeOf(c.now, d),
     error |-> "none", limit |-> c.limit]

\* the result of the inner try after COMMIT
Verdict(c, d) ==
    [allowed |-> c.currentCount <= c.limit,
     count |-> c.currentCount,
     remaining |-> Max(0, c.limit - c.currentCount),
     resetTime |-> ResetTimeOf(c.now, d),
     error |-> "none", limit |-> c.limit]

\* the call has returned: only its result outlives it
Done(c, r) == [IdleChk EXCEPT !.pc = "done", !.res = r, !.failed = c.failed]

\* variant: the -1 sentinel is not looked at
CheckEntryNoSentinel(d, limit, inc) ==
    IF pgClient = "null"
    THEN [IdleChk EXCEPT !.pc = "done",
            !.res = [allowed |-> TRUE, count |-> 0, remaining |-> limit,
                     resetTime |-> now + WindowMs(d), error |-> "none", limit |-> 0]]
    ELSE [IdleChk EXCEPT !.pc = "BEGIN", !.limit = limit, !.increment = inc, !.now = now]

\* the synchronous prefix of checkRateLimit, up to its first await
CheckEntry(d, limit, inc) ==
    IF pgClient = "null"
    THEN [IdleChk EXCEPT !.pc = "done",
            !.res = [allowed |-> TRUE, count |-> 0, remaining |-> limit,
                     resetTime |-> now + WindowMs(d), error |-> "none", limit |-> 0]]
    ELSE IF limit = Unlimited
    THEN [IdleChk EXCEPT !.pc = "done",
            !.res = [allowed |-> TRUE, count |-> 0, remaining |-> Unlimited,
                     resetTime |-> 0, error |-> "none", limit |-> 0]]
    ELSE [IdleChk EXCEPT !.pc = "BEGIN", !.limit = limit, !.increment = inc, !.now = now]

\* the slot keeps its place in the queue while it has another query to send
Requeue(s, npc) == IF npc = "done" THEN Tail(queue) ELSE Append(Tail(queue), s)

\* a statement of slot s failed with message msg
OnError(s, msg) ==
    LET c == chk[s] IN
    IF c.pc \in {"BEGIN", "ROLLBACK"}
    THEN /\ chk' = [chk EXCEPT ![s] = Done([c EXCEPT !.failed = TRUE], FailOpen(c, s[2], msg))]
         /\ queue' = Requeue(s, "done")
    ELSE /\ chk' = [chk EXCEPT ![s] = [c EXCEPT !.pc = "ROLLBACK", !.err = msg, !.failed = TRUE]]
         /\ queue' = Requeue(s, "ROLLBACK")

Ready(s, pc) ==
    /\ queue # <<>>
    /\ Head(queue) = s
    /\ chk[s].pc = pc
    /\ pgClient = "connected"

\* a caller awaits one checkRateLimit at a time; its earlier result is dropped
CallCheckRateLimit(s, inc) ==
    /\ calls < MaxCalls
    /\ \A d \in Dims : chk[<<s[1], d>>].pc \in {"idle", "done"}
    /\ LET c == CheckEntry(s[2], limits[s[2]], inc) IN
        /\ chk' = [t \in Slots |-> IF t = s THEN c
                                   ELSE IF t[1] = s[1] THEN IdleChk ELSE chk[t]]
        /\ queue' = IF c.pc = "BEGIN" THEN Append(queue, s) ELSE queue
        /\ applied' = IF c.pc = "BEGIN"
                      THEN [applied EXCEPT ![WindowKey(now, s[2])] = @ + inc]
                      ELSE applied
    /\ calls' = calls + 1
    /\ UNCHANGED <<gwVars, now, pgClient, txState, table, committed, faults, clean, limits>>

QueryBegin(s) ==
    /\ Ready(s, "BEGIN")
    /\ IF txState = "aborted"
       THEN /\ OnError(s, "aborted")
            /\ clean' = FALSE
            /\ UNCHANGED txState
       ELSE /\ txState' = "active"
            /\ chk' = [chk EXCEPT ![s].pc = "DELETE"]
            /\ queue' = Requeue(s, "DELETE")
            /\ UNCHANGED clean
    /\ UNCHANGED <<gwVars, now, pgClient, table, committed, calls, faults, applied, limits>>

QueryDelete(s) ==
    /\ Ready(s, "DELETE")
    /\ IF txState = "aborted"
       THEN /\ OnError(s, "aborted")
            /\ clean' = FALSE
            /\ UNCHANGED <<table, committed>>
       ELSE /\ table' = DeleteExpired(table, chk[s].now)
            /\ committed' = Durable(table')
            /\ chk' = [chk EXCEPT ![s].pc = "SELECT"]
            /\ queue' = Requeue(s, "SELECT")
            /\ UNCHANGED clean
    /\ UNCHANGED <<gwVars, now, pgClient, txState, calls, faults, applied, limits>>

QuerySelect(s) ==
    /\ Ready(s, "SELECT")
    /\ IF txState = "aborted"
       THEN /\ OnError(s, "aborted")
            /\ clean' = FALSE
       ELSE LET k == DbKey(chk[s].now, s[2])
                npc == IF HasRow(table, k) THEN "UPDATE" ELSE "INSERT"
                cc == IF HasRow(table, k) THEN CountOf(table, k) + chk[s].increment
                      ELSE chk[s].increment
            IN /\ chk' = [chk EXCEPT ![s].pc = npc, ![s].currentCount = cc]
               /\ queue' = Requeue(s, npc)
               /\ UNCHANGED clean
    /\ UNCHANGED <<gwVars, now, pgClient, txState, table, committed, calls, faults, applied, limits>>

QueryInsert(s) ==
    /\ Ready(s, "INSERT")
    /\ LET k == DbKey(chk[s].now, s[2]) IN
       IF txState = "aborted"
       THEN /\ OnError(s, "aborted")
            /\ clean' = FALSE
            /\ UNCHANGED <<txState, table, committed>>
       ELSE IF HasRow(table, k)
       THEN /\ OnError(s, "duplicate key")
            /\ clean' = FALSE
            /\ txState' = IF txState = "active" THEN "aborted" ELSE txState
            /\ UNCHANGED <<table, committed>>
       ELSE /\ table' = InsertRow(table, k, chk[s].increment, ResetTimeOf(chk[s].now, s[2]))
            /\ committed' = Durable(table')
            /\ chk' = [chk EXCEPT ![s].pc = "COMMIT"]
            /\ queue' = Requeue(s, "COMMIT")
            /\ UNCHANGED <<txState, clean>>
    /\ UNCHANGED <<gwVars, now, pgClient, calls, faults, applied, limits>>

QueryUpdate(s) ==
    /\ Ready(s, "UPDATE")
    /\ IF txState = "aborted"
       THEN /\ OnError(s, "aborted")
            /\ clean' = FALSE
            /\ UNCHANGED <<table, committed>>
       ELSE /\ table' = UpdateRow(table, DbKey(chk[s].now, s[2]), chk[s].currentCount)
            /\ committed' = Durable(table')
            /\ chk' = [chk EXCEPT ![s].pc = "COMMIT"]
            /\ queue' = Requeue(s, "COMMIT")
            /\ UNCHANGED clean
    /\ UNCHANGED <<gwVars, now, pgClient, txState, calls, faults, applied, limits>>

\* COMMIT of an aborted block rolls back and reports no error
QueryCommit(s) ==
    /\ Ready(s, "COMMIT")
    /\ txState' = "idle"
    /\ IF txState = "aborted"
       THEN /\ table' = committed
            /\ UNCHANGED committed
       ELSE /\ committed' = table
            /\ UNCHANGED table
    /\ chk' = [chk EXCEPT ![s] = Done(chk[s], Verdict(chk[s], s[2]))]
    /\ queue' = Requeue(s, "done")
    /\ UNCHANGED <<gwVars, now, pgClient, calls, faults, applied, clean, limits>>

\* inner catch: ROLLBACK, then rethrow the original error to the outer catch
QueryRollback(s) ==
    /\ Ready(s, "ROLLBACK")
    /\ txState' = "idle"
    /\ table' = committed
    /\ chk' = [chk EXCEPT ![s] = Done(chk[s], FailOpen(chk[s], s[2], chk[s].err))]
    /\ queue' = Requeue(s, "done")
    /\ UNCHANGED <<gwVars, now, pgClient, committed, calls, faults, applied, clean, limits>>

\* the server rejects a statement inside the try block (timeout, deadlock, ...)
QueryFault(s) ==
    /\ queue # <<>>
    /\ Head(queue) = s
    /\ pgClient = "connected"
    /\ chk[s].pc \in {"BEGIN", "DELETE", "SELECT", "INSERT", "UPDATE", "COMMIT"}
    /\ faults < MaxFaults
    /\ faults' = faults + 1
    /\ clean' = FALSE
    /\ txState' = IF txState = "active" THEN "aborted" ELSE txState
    /\ OnError(s, "statement failed")
    /\ UNCHANGED <<gwVars, now, pgClient, table, committed, calls, applied, limits>>

\* the client is not queryable any more: every query rejects, ROLLBACK included
QueryRejected(s) ==
    /\ queue # <<>>
    /\ Head(queue) = s
    /\ pgClient = "broken"
    /\ OnError(s, "not queryable")
    /\ UNCHANGED <<gwVars, now, pgClient, txState, table, committed, calls, faults, applied, clean, limits>>

\* the connection drops; the server discards the open transaction
ConnLost ==
    /\ pgClient = "connected"
    /\ pgClient' = "broken"
    /\ txState' = "idle"
    /\ table' = committed
    /\ clean' = FALSE
    /\ UNCHANGED <<gwVars, now, committed, queue, chk, calls, faults, applied, limits>>

Tick(t) ==
    /\ t > now
    /\ now' = t
    /\ UNCHANGED <<gwVars, pgClient, txState, table, committed, queue, chk, calls, faults, applied, clean, limits>>

\* checkUserRateLimits pushes one check per dimension with a finite non-zero limit
Wanted(d, tokens) ==
    /\ limits[d] # 0
    /\ limits[d] # Unlimited
    /\ (d = "tokens_per_minute" => tokens > 0)

DimOrder == <<"requests_per_second", "daily_requests", "tokens_per_minute">>

RECURSIVE PushChecks(_, _, _, _)
PushChecks(r, tokens, i, acc) ==
    IF i > Len(DimOrder) THEN acc
    ELSE LET d == DimOrder[i]
             inc == IF d = "tokens_per_minute" THEN tokens ELSE 1
             c == CheckEntry(d, limits[d], inc)
         IN IF Wanted(d, tokens)
            THEN PushChecks(r, tokens, i + 1,
                   [chk |-> [acc.chk EXCEPT ![<<r, d>>] = c],
                    queue |-> IF c.pc = "BEGIN" THEN Append(acc.queue, <<r, d>>) ELSE acc.queue,
                    applied |-> IF c.pc = "BEGIN"
                                THEN [acc.applied EXCEPT ![WindowKey(now, d)] = @ + inc]
                                ELSE acc.applied])
            ELSE PushChecks(r, tokens, i + 1, acc)

\* checkUserRateLimits called on its own: the caller's earlier results are dropped
CallCheckUserRateLimits(r, tokens) ==
    /\ calls < MaxCalls
    /\ \A d \in Dims : chk[<<r, d>>].pc \in {"idle", "done"}
    /\ LET p == PushChecks(r, tokens, 1,
                          [chk |-> [t \in Slots |-> IF t[1] = r THEN IdleChk ELSE chk[t]],
                           queue |-> queue, applied |-> applied])
       IN /\ chk' = p.chk
          /\ queue' = p.queue
          /\ applied' = p.applied
    /\ calls' = calls + 1
    /\ UNCHANGED <<gwVars, now, pgClient, txState, table, committed, faults, clean, limits>>

IncsOf(d) == IF d = "tokens_per_minute" THEN 1 .. MaxInc ELSE {1}

LimitPlans ==
    {[requests_per_second |-> 1, daily_requests |-> MaxLimit, tokens_per_minute |-> Unlimited],
     [requests_per_second |-> Unlimited, daily_requests |-> 1, tokens_per_minute |-> MaxLimit]}

InitRL ==
    /\ now = 0
    /\ pgClient \in {"null", "connected"}
    /\ txState = "idle"
    /\ table = {}
    /\ committed = {}
    /\ queue = <<>>
    /\ chk = [s \in Slots |-> IdleChk]
    /\ calls = 0
    /\ faults = 0
    /\ applied = [k \in DbKeys |-> 0]
    /\ clean = TRUE
    /\ limits \in LimitPlans

NextRL ==
    \/ \E s \in Slots : \E i \in IncsOf(s[2]) : CallCheckRateLimit(s, i)
    \/ \E s \in Slots : QueryBegin(s)
    \/ \E s \in Slots : QueryDelete(s)
    \/ \E s \in Slots : QuerySelect(s)
    \/ \E s \in Slots : QueryInsert(s)
    \/ \E s \in Slots : QueryUpdate(s)
    \/ \E s \in Slots : QueryCommit(s)
    \/ \E s \in Slots : QueryRollback(s)
    \/ \E s \in Slots : QueryFault(s)
    \/ \E s \in Slots : QueryRejected(s)
    \/ ConnLost
    \/ \E t \in TimePoints : Tick(t)



\* =========================================================== credential pool
VALID_MODELS == {"orzion-pro", "orzion-turbo", "orzion-mini"}

\* number of ORZION_*_API_KEY_n variables set in the environment, per model
PoolConfigs ==
    {[m \in VALID_MODELS |-> CASE m = "orzion-pro" -> MaxKeys
                               [] m = "orzion-turbo" -> MaxKeys - 1
                               [] m = "orzion-mini" -> 0]}

\* variant: the empty list is not looked at
HasKeysAny(cfg, m) == TRUE

\* getCurrentApiKey throws when no key is configured
HasKeys(cfg, m) == cfg[m].keys > 0

\* variant: always the first credential of the list
getCurrentApiKeyFirst(cfg, m) == 0

\* getCurrentApiKey(model).keyIndex
getCurrentApiKey(cfg, m) == cfg[m].currentIndex

\* variant: the index is advanced without wrapping at the end of the list
rotateApiKeyNoWrap(cfg, m) ==
    IF cfg[m].keys = 0 THEN cfg
    ELSE [cfg EXCEPT ![m].currentIndex = (cfg[m].currentIndex + 1) % (cfg[m].keys + 1),
                     ![m].failureCount = cfg[m].failureCount + 1]

\* variant: the index is advanced without the modulo
rotateApiKeyNoModulo(cfg, m) ==
    IF cfg[m].keys = 0 THEN cfg
    ELSE [cfg EXCEPT ![m].currentIndex = cfg[m].currentIndex + 1,
                     ![m].failureCount = cfg[m].failureCount + 1]

\* rotateApiKey(model, reason)
rotateApiKey(cfg, m) ==
    IF cfg[m].keys = 0 THEN cfg
    ELSE [cfg EXCEPT ![m].currentIndex = (cfg[m].currentIndex + 1) % cfg[m].keys,
                     ![m].failureCount = cfg[m].failureCount + 1]

\* variant: the reset is forgotten
resetFailureCountNoop(cfg, m) == cfg

\* variant: the reset also goes back to the first credential
resetFailureCountRewinds(cfg, m) == [cfg EXCEPT ![m].failureCount = 0, ![m].currentIndex = 0]

\* resetFailureCount(model)
resetFailureCount(cfg, m) == [cfg EXCEPT ![m].failureCount = 0]

\* allKeysFailed(model)
allKeysFailed(cfg, m) ==
    IF cfg[m].keys = 0 THEN TRUE ELSE cfg[m].failureCount >= cfg[m].keys

\* getRotationStats(model): a snapshot of the entry
getRotationStats(cfg, m) ==
    [model |-> m, totalKeys |-> cfg[m].keys, currentKeyIndex |-> cfg[m].currentIndex,
     failureCount |-> cfg[m].failureCount, allKeysFailed |-> allKeysFailed(cfg, m)]

\* ======================================================== retry dispatcher
NoStatus == 0

\* an error message is its sequence of characters
Msg(str) ==
    CASE str = "" -> <<>>
      [] str = "bad" -> <<"b", "a", "d">>
      [] str = "Rate" -> <<"R", "a", "t", "e">>
      [] str = "rat" -> <<"r", "a", "t">>
      [] str = "ratxe" -> <<"r", "a", "t", "x", "e">>
      [] str = "a limit" -> <<"a", " ", "l", "i", "m", "i", "t">>
      [] str = "QUOTA" -> <<"Q", "U", "O", "T", "A">>
      [] str = "timeout" -> <<"t", "i", "m", "e", "o", "u", "t">>
      [] str = "Invalid response structure from OpenRouter API" ->
           <<"I", "n", "v", "a", "l", "i", "d", " ", "r", "e", "s", "p", "o", "n", "s", "e",
             " ", "s", "t", "r", "u", "c", "t", "u", "r", "e", " ", "f", "r", "o", "m", " ",
             "O", "p", "e", "n", "R", "o", "u", "t", "e", "r", " ", "A", "P", "I">>
      [] str = "No hay" -> <<"N", "o", " ", "h", "a", "y">>

Upper == <<"A", "I", "L", "M", "N", "O", "P", "Q", "R", "T", "U">>
Lower == <<"a", "i", "l", "m", "n", "o", "p", "q", "r", "t", "u">>

\* the lower-case letter of every upper-case letter that occurs in a message
LowerMap ==
    [c \in {Upper[i] : i \in 1 .. Len(Upper)} |->
        Lower[CHOOSE i \in 1 .. Len(Upper) : Upper[i] = c]]

\* String.prototype.toLowerCase, one character
LowerChar(c) == IF c \in DOMAIN LowerMap THEN LowerMap[c] ELSE c

toLowerCase(msg) == [i \in 1 .. Len(msg) |-> LowerChar(msg[i])]

\* String.prototype.includes: word stands in msg at some position
includes(msg, word) ==
    \E i \in 1 .. Len(msg) - Len(word) + 1 :
        \A j \in 1 .. Len(word) : msg[i + j - 1] = word[j]

NoError == [status |-> NoStatus, code |-> "no error", message |-> Msg("")]

\* what one axios.post can throw: error.response?.status (0: no response),
\* error.code, and error.response?.data?.error?.message || error.message
E429 == [status |-> 429, code |-> "ERR_BAD_REQUEST", message |-> Msg("Rate")]
E400 == [status |-> 400, code |-> "ERR_BAD_REQUEST", message |-> Msg("bad")]
ETimeout == [status |-> NoStatus, code |-> "ECONNABORTED", message |-> Msg("timeout")]
\* a 2xx without choices[0]: new Error('Invalid response structure from OpenRouter API')
EBadShape == [status |-> NoStatus, code |-> "none", message |-> Msg("Invalid response structure from OpenRouter API")]
\* new Error(`No hay claves API configuradas para el modelo: ${model}`)
ENoKeys == [status |-> NoStatus, code |-> "nokeys", message |-> Msg("No hay")]

UpstreamErrors == {E429, E400, ETimeout, EBadShape}

\* variant: the message is searched as it is, without toLowerCase
shouldRotateCaseSensitive(e) ==
    \/ e.status = 429
    \/ e.status = 401
    \/ e.status = 403
    \/ e.status >= 500
    \/ e.code \in {"ECONNABORTED", "ETIMEDOUT"}
    \/ e.code \in {"ENOTFOUND", "ECONNREFUSED", "ECONNRESET"}
    \/ includes(e.message, <<"r", "a", "t", "e">>)
    \/ includes(e.message, <<"l", "i", "m", "i", "t">>)
    \/ includes(e.message, <<"q", "u", "o", "t", "a">>)

\* variant: a failure that carries no HTTP response is rotate-worthy
shouldRotateNoResponse(e) ==
    \/ e.status = NoStatus
    \/ e.status = 429
    \/ e.status = 401
    \/ e.status = 403
    \/ e.status >= 500

\* lines 490-499
shouldRotate(e) ==
    \/ e.status = 429
    \/ e.status = 401
    \/ e.status = 403
    \/ e.status >= 500
    \/ e.code \in {"ECONNABORTED", "ETIMEDOUT"}
    \/ e.code \in {"ENOTFOUND", "ECONNREFUSED", "ECONNRESET"}
    \/ includes(toLowerCase(e.message), <<"r", "a", "t", "e">>)
    \/ includes(toLowerCase(e.message), <<"l", "i", "m", "i", "t">>)
    \/ includes(toLowerCase(e.message), <<"q", "u", "o", "t", "a">>)

NoResult == [success |-> FALSE, attempts |-> 0, lastStatusCode |-> NoStatus,
             lastErrorMessage |-> Msg(""), errorCode |-> "no error",
             allKeysFailed |-> FALSE, statusCode |-> 0, apiKeyUsed |-> 0]

\* upstream, rotations and usageCalls are ghosts counting what the request did
\* details: the reason of a denial; denied: the result attached to it
\* errorBeside: ghost, a dimension check of the denied request had hit a storage error
\* cause: ghost, why the response has the status it has
\* usageFailed: ghost, an updateApiUsage call of the request returned false
\* fatalAt: the attempt whose failure was not rotate-worthy (0: none so far)
\* clobbered: another request rotated the model after this one's success
\* thrown: ghost, the error that the latest attempt of the dispatch ended with
\* used: ghost, the key indices the attempts of the running dispatch have fetched
\* store: ghost, what the account store answered to the validation of the credential
IdleReq == [pc |-> "idle", model |-> "none", requestsToday |-> 0,
            retryCount |-> 0, keyIndex |-> 0, lastError |-> NoError, delay |-> 0,
            result |-> NoResult, status |-> 0, details |-> "none",
            upstream |-> 0, rotations |-> 0, usageCalls |-> 0,
            fatalAt |-> 0, clobbered |-> FALSE, denied |-> NoRes, errorBeside |-> FALSE,
            cause |-> "none", usageFailed |-> FALSE, thrown |-> NoError, used |-> <<>>,
            store |-> "none"]

\* res.status(...).json(...): the invocation is over, its locals are gone
Responded(status, details, cause) ==
    [IdleReq EXCEPT !.pc = "done", !.status = status, !.details = details, !.cause = cause]

\* the Exhausted value built after the loop (lines 530-543)
Exhausted(cfg, m, retryCount, lastError) ==
    [success |-> FALSE, attempts |-> retryCount, lastStatusCode |-> lastError.status,
     lastErrorMessage |-> lastError.message, errorCode |-> lastError.code,
     allKeysFailed |-> allKeysFailed(cfg, m),
     statusCode |-> IF lastError.status # NoStatus THEN lastError.status ELSE 503,
     apiKeyUsed |-> 0]

\* handler, else branch: record usage with response.statusCode || 500, then throw 503
AfterExhausted(q, res) ==
    [q EXCEPT !.pc = "usage_exhausted", !.result = res, !.usageCalls = @ + 1,
              !.keyIndex = 0, !.delay = 0, !.used = <<>>]

\* variant: one retry too few
CanRetryEarly(e, retryCount) == shouldRotate(e) /\ retryCount < MAX_RETRIES - 1

\* variant: every failure is retried
CanRetryAny(e, retryCount) == retryCount < MAX_RETRIES

\* variant: a rotate-worthy failure rotates even after the last attempt
CanRetryUnbounded(e, retryCount) == shouldRotate(e)

\* if (shouldRotate && retryCount < MAX_RETRIES)
CanRetry(e, retryCount) == shouldRotate(e) /\ retryCount < MAX_RETRIES

\* top of the while loop: leave it when the retries are used up; else fetch the
\* current credential and post, or fail without a post when there is none
Attempt(q, cfg) ==
    IF ~(q.retryCount < MAX_RETRIES)
    THEN AfterExhausted(q, Exhausted(cfg, q.model, q.retryCount, q.lastError))
    ELSE IF HasKeys(cfg, q.model)
    THEN [q EXCEPT !.pc = "upstream", !.keyIndex = getCurrentApiKey(cfg, q.model),
                   !.upstream = @ + 1, !.used = Append(@, getCurrentApiKey(cfg, q.model))]
    ELSE AfterExhausted([q EXCEPT !.retryCount = @ + 1, !.lastError = ENoKeys,
                                  !.thrown = ENoKeys],
                        Exhausted(cfg, q.model, q.retryCount + 1, ENoKeys))

\* ================================================================= handler
\* bad_model: lines 138-155; bad_body: a field fails one of the checks of lines
\* 159-220; null_message: messages holds a null entry, so msg.role (line 183)
\* raises a TypeError; no_auth: lines 222-238
InputKinds == {"ok", "bad_model", "bad_body", "null_message", "no_auth"}

\* ApiError status of the throw; a TypeError is not operational and ends in 500
RejectStatus(kind) ==
    CASE kind = "no_auth" -> 401
      [] kind = "null_message" -> 500
      [] OTHER -> 400

CauseOf(kind) == IF kind = "no_auth" THEN "auth" ELSE "input"

\* POST received: validation of model, body and Authorization header (lines 132-241).
\* inputTokens (line 241) depends on the body alone; its value is drawn where it
\* is first used, in ValidateReturn
Receive(r, kind, m) ==
    /\ calls < MaxRequests
    /\ req[r].pc \in {"idle", "done"}
    /\ \A o \in Reqs : o < r => req[o].pc \notin {"idle", "done"}
    /\ calls' = calls + 1
    /\ req' = [o \in Reqs |->
         IF o = r
         THEN IF kind = "ok"
              THEN [IdleReq EXCEPT !.pc = "validate", !.model = m]
              ELSE Responded(RejectStatus(kind), "none", CauseOf(kind))
         ELSE IF req[o].pc = "done" THEN IdleReq ELSE req[o]]
    /\ UNCHANGED <<now, pgClient, txState, table, committed, queue, chk, faults, applied,
                   clean, limits, API_KEY_CONFIG, failedKeys>>

\* variant: the dimension checks are started before the credential's validity is looked at
QuotaWorkEager(r, valid, tokens) ==
    PushChecks(r, tokens, 1, [chk |-> chk, queue |-> queue, applied |-> applied])

\* lines 246-256: checkRateLimits is reached only with a valid credential
QuotaWork(r, valid, tokens) ==
    IF valid
    THEN PushChecks(r, tokens, 1, [chk |-> chk, queue |-> queue, applied |-> applied])
    ELSE [chk |-> chk, queue |-> queue, applied |-> applied]

\* what supabase.rpc('validate_api_key') can do: resolve with an error, throw,
\* resolve with no row, or resolve with a row whose is_valid is false or true
StoreOutcomes == {"error", "throws", "no_row", "row_invalid", "row_valid"}

\* variant: an exception of the store is taken for a valid credential
validateApiKeyFailOpen(outcome) ==
    CASE outcome = "error" -> [isValid |-> FALSE, error |-> "error.message"]
      [] outcome = "throws" -> [isValid |-> TRUE, error |-> "undefined"]
      [] outcome = "no_row" -> [isValid |-> FALSE, error |-> "API key not found"]
      [] outcome = "row_invalid" -> [isValid |-> FALSE, error |-> "undefined"]
      [] outcome = "row_valid" -> [isValid |-> TRUE, error |-> "undefined"]

\* supabase.js lines 13-48
validateApiKey(outcome) ==
    CASE outcome = "error" -> [isValid |-> FALSE, error |-> "error.message"]
      [] outcome = "throws" -> [isValid |-> FALSE, error |-> "Database error"]
      [] outcome = "no_row" -> [isValid |-> FALSE, error |-> "API key not found"]
      [] outcome = "row_invalid" -> [isValid |-> FALSE, error |-> "undefined"]
      [] outcome = "row_valid" -> [isValid |-> TRUE, error |-> "undefined"]

\* validateApiKey returned: invalid -> 401 (usage is recorded since the key and
\* model are known); valid -> checkRateLimits starts the dimension checks
ValidateReturn(r, outcome, usageToday, tokens) ==
    /\ req[r].pc = "validate"
    /\ LET valid == validateApiKey(outcome).isValid
           p == QuotaWork(r, valid, tokens)
       IN /\ chk' = p.chk
          /\ queue' = p.queue
          /\ applied' = p.applied
          /\ req' = IF valid
                    THEN [req EXCEPT ![r].pc = "ratelimit", ![r].requestsToday = usageToday,
                                     ![r].store = outcome]
                    ELSE [req EXCEPT ![r].pc = "usage_error", ![r].status = 401,
                                     ![r].cause = "auth", ![r].usageCalls = @ + 1,
                                     ![r].store = outcome]
    /\ UNCHANGED <<now, pgClient, txState, table, committed, calls, faults, clean, limits,
                   API_KEY_CONFIG, failedKeys>>

\* first denied result in push order, "none" when every check allowed
RECURSIVE FirstDenied(_, _)
FirstDenied(r, i) ==
    IF i > Len(DimOrder) THEN "none"
    ELSE LET c == chk[<<r, DimOrder[i]>>] IN
         IF c.pc = "done" /\ ~c.res.allowed THEN DimOrder[i] ELSE FirstDenied(r, i + 1)

GateAllowed == [allowed |-> TRUE, reason |-> "none", details |-> NoRes]

\* variant: the aggregate denies only when every check it performed denied
checkUserRateLimitsEvery(r) ==
    LET performed == {d \in Dims : chk[<<r, d>>].pc = "done"} IN
    IF performed # {} /\ \A d \in performed : ~chk[<<r, d>>].res.allowed
    THEN [allowed |-> FALSE, reason |-> "rate_limit_exceeded",
          details |-> chk[<<r, FirstDenied(r, 1)>>].res]
    ELSE GateAllowed

\* variant: a result that carries an error is taken for a denial
checkUserRateLimitsErrorDenies(r) ==
    LET bad == {d \in Dims : /\ chk[<<r, d>>].pc = "done"
                             /\ (~chk[<<r, d>>].res.allowed \/ chk[<<r, d>>].res.error # "none")}
    IN IF bad # {}
       THEN [allowed |-> FALSE, reason |-> "rate_limit_exceeded",
             details |-> chk[<<r, CHOOSE d \in bad : TRUE>>].res]
       ELSE GateAllowed

\* checkUserRateLimits after Promise.all: the first denied result, in push order
checkUserRateLimits(r) ==
    LET denied == FirstDenied(r, 1) IN
    IF denied # "none"
    THEN [allowed |-> FALSE, reason |-> "rate_limit_exceeded", details |-> chk[<<r, denied>>].res]
    ELSE GateAllowed

\* variant: the account's own counter is compared with > instead of >=
checkRateLimitsStrict(r) ==
    LET u == checkUserRateLimits(r) IN
    IF ~u.allowed
    THEN u
    ELSE IF limits["daily_requests"] # Unlimited
            /\ req[r].requestsToday > limits["daily_requests"]
    THEN [allowed |-> FALSE, reason |-> "daily_requests_exceeded_db", details |-> NoRes]
    ELSE GateAllowed

\* checkRateLimits of lib/supabase.js: limiter verdict, then the account's own counter
checkRateLimits(r) ==
    LET u == checkUserRateLimits(r) IN
    IF ~u.allowed
    THEN u
    ELSE IF limits["daily_requests"] # Unlimited
            /\ req[r].requestsToday >= limits["daily_requests"]
    THEN [allowed |-> FALSE, reason |-> "daily_requests_exceeded_db", details |-> NoRes]
    ELSE GateAllowed

\* variant: the dispatch is started before the gate's verdict is looked at
AfterGateLate(q, v, cfg) ==
    IF v.allowed
    THEN Attempt([q EXCEPT !.requestsToday = 0], cfg)
    ELSE [Attempt(q, cfg) EXCEPT !.pc = "usage_error", !.status = 429,
                   !.requestsToday = 0, !.details = v.reason, !.denied = v.details,
                   !.cause = "quota", !.usageCalls = @ + 1]

\* handler lines 258-273: throw 429 when the gate denied, else start the dispatch
AfterGate(q, v, cfg) ==
    IF v.allowed
    THEN Attempt([q EXCEPT !.requestsToday = 0], cfg)
    ELSE [q EXCEPT !.pc = "usage_error", !.status = 429,
                   !.requestsToday = 0, !.details = v.reason, !.denied = v.details,
                   !.cause = "quota", !.usageCalls = @ + 1]

\* Promise.all of the dimension checks settled: 429, or the first dispatch attempt
RateLimitReturn(r) ==
    /\ req[r].pc = "ratelimit"
    /\ \A d \in Dims : chk[<<r, d>>].pc \in {"idle", "done"}
    /\ LET q == AfterGate(req[r], checkRateLimits(r), API_KEY_CONFIG) IN
       req' = [req EXCEPT ![r] =
                 [q EXCEPT !.errorBeside = /\ q.pc = "usage_error"
                                           /\ \E d \in Dims : chk[<<r, d>>].failed]]
    /\ chk' = [s \in Slots |-> IF s[1] = r THEN IdleChk ELSE chk[s]]
    /\ UNCHANGED <<now, pgClient, txState, table, committed, queue, calls, faults, applied,
                   clean, limits, API_KEY_CONFIG, failedKeys>>

\* a structurally valid 2xx: Success; the handler resets the failure count
\* (line 276), computes the output tokens (line 278) and records usage. With no
\* usage.completion_tokens and a null content, estimateTokens raises a TypeError:
\* the catch block records usage with 500 and answers 500
UpstreamOk(r, readable) ==
    /\ req[r].pc = "upstream"
    /\ API_KEY_CONFIG' = resetFailureCount(API_KEY_CONFIG, req[r].model)
    /\ failedKeys' = [failedKeys EXCEPT ![req[r].model] = {}]
    /\ LET q == [req[r] EXCEPT !.usageCalls = @ + 1,
                              !.lastError = NoError, !.thrown = NoError, !.keyIndex = 0, !.delay = 0,
                              !.used = <<>>,
                              !.result = [NoResult EXCEPT !.success = TRUE,
                                                          !.apiKeyUsed = req[r].keyIndex + 1]]
       IN req' = [req EXCEPT ![r] =
                    IF readable
                    THEN [q EXCEPT !.pc = "usage_ok"]
                    ELSE [q EXCEPT !.pc = "usage_error", !.status = 500, !.cause = "unexpected"]]
    /\ UNCHANGED rlVars

\* variant: the same delay before every retry
BackoffDelayFixed(retryCount) == RETRY_DELAY_MS

\* line 518: setTimeout(resolve, RETRY_DELAY_MS * retryCount)
BackoffDelay(retryCount) == RETRY_DELAY_MS * retryCount

\* variant: the failed attempt is not counted
FailedNoCount(q, e) ==
    [q EXCEPT !.lastError = e,
              !.fatalAt = IF @ = 0 /\ ~shouldRotate(e) THEN q.retryCount + 1 ELSE @]

\* variant: the error of the first failed attempt is kept
FailedKeepsFirst(q, e) ==
    [q EXCEPT !.retryCount = @ + 1,
              !.lastError = IF q.lastError = NoError THEN e ELSE q.lastError,
              !.fatalAt = IF @ = 0 /\ ~shouldRotate(e) THEN q.retryCount + 1 ELSE @]

\* lines 471-472: retryCount++; lastError = error
Failed(q, e) ==
    [q EXCEPT !.retryCount = @ + 1, !.lastError = e,
              !.fatalAt = IF @ = 0 /\ ~shouldRotate(e) THEN q.retryCount + 1 ELSE @]

\* variant: the index is advanced from the one fetched before the upstream call
RotatedStale(q, cfg) ==
    IF cfg[q.model].keys = 0 THEN cfg
    ELSE [cfg EXCEPT ![q.model].currentIndex = (q.keyIndex + 1) % cfg[q.model].keys,
                     ![q.model].failureCount = cfg[q.model].failureCount + 1]

\* line 516: the rotation reads and writes the pool entry in one synchronous call
Rotated(q, cfg) == rotateApiKey(cfg, q.model)

\* the catch block of the loop (lines 470-527)
UpstreamFail(r, e) ==
    /\ req[r].pc = "upstream"
    /\ LET q == [Failed(req[r], e) EXCEPT !.thrown = e]
           m == q.model
       IN IF CanRetry(e, q.retryCount)
          THEN /\ API_KEY_CONFIG' = Rotated(q, API_KEY_CONFIG)
               /\ req' = [o \in Reqs |->
                    IF o = r
                    THEN [q EXCEPT !.pc = "backoff", !.delay = BackoffDelay(q.retryCount),
                                   !.rotations = @ + 1]
                    ELSE IF req[o].pc = "usage_ok" /\ req[o].model = m
                    THEN [req[o] EXCEPT !.clobbered = TRUE]
                    ELSE req[o]]
          ELSE /\ UNCHANGED API_KEY_CONFIG
               /\ req' = [req EXCEPT ![r] =
                            AfterExhausted(q, Exhausted(API_KEY_CONFIG, m, q.retryCount, q.lastError))]
    /\ failedKeys' = [failedKeys EXCEPT ![req[r].model] = @ \cup {req[r].keyIndex}]
    /\ UNCHANGED rlVars

\* the backoff timer fired: next iteration of the loop
BackoffDone(r) ==
    /\ req[r].pc = "backoff"
    /\ req' = [req EXCEPT ![r] = Attempt(req[r], API_KEY_CONFIG)]
    /\ UNCHANGED <<API_KEY_CONFIG, failedKeys>>
    /\ UNCHANGED rlVars

\* variant: a recording that failed turns the response into a 500
AfterUsagePropagate(q, ok) ==
    LET f == q.usageFailed \/ ~ok IN
    IF ~ok
    THEN [Responded(500, "none", "unexpected") EXCEPT !.usageFailed = f]
    ELSE CASE q.pc = "usage_ok" -> [Responded(200, "none", "ok") EXCEPT !.usageFailed = f]
           [] q.pc = "usage_exhausted" ->
                [q EXCEPT !.pc = "usage_error", !.status = 503, !.cause = "exhausted",
                          !.usageCalls = @ + 1, !.usageFailed = f]
           [] q.pc = "usage_error" ->
                [Responded(q.status, q.details, q.cause) EXCEPT !.usageFailed = f]

\* what the handler does once `await updateApiUsage(...)` has settled with ok
\* (data) or not (false): the value is not looked at
AfterUsage(q, ok) ==
    LET f == q.usageFailed \/ ~ok IN
    CASE q.pc = "usage_ok" -> [Responded(200, "none", "ok") EXCEPT !.usageFailed = f]
      [] q.pc = "usage_exhausted" ->
           [q EXCEPT !.pc = "usage_error", !.status = 503, !.cause = "exhausted",
                     !.usageCalls = @ + 1, !.usageFailed = f]
      [] q.pc = "usage_error" ->
           [Responded(q.status, q.details, q.cause) EXCEPT !.usageFailed = f]

\* updateApiUsage settled (it never throws); then the response, or the 503 being
\* thrown into the catch block, which records usage once more
UsageReturn(r, ok) ==
    /\ req[r].pc \in {"usage_ok", "usage_exhausted", "usage_error"}
    /\ req' = [req EXCEPT ![r] = AfterUsage(req[r], ok)]
    /\ UNCHANGED <<API_KEY_CONFIG, failedKeys>>
    /\ UNCHANGED rlVars

InitPool(sizes) == [m \in VALID_MODELS |-> [keys |-> sizes[m], currentIndex |-> 0, failureCount |-> 0]]

Init ==
    /\ InitRL
    /\ \E sizes \in PoolConfigs : API_KEY_CONFIG = InitPool(sizes)
    /\ req = [r \in Reqs |-> IdleReq]
    /\ failedKeys = [m \in VALID_MODELS |-> {}]

Next ==
    \/ \E r \in Reqs, k \in InputKinds, m \in VALID_MODELS : Receive(r, k, m)
    \/ \E r \in Reqs, v \in StoreOutcomes, u \in 0 .. MaxUsage, t \in 1 .. MaxTokens :
          ValidateReturn(r, v, u, t)
    \/ \E r \in Reqs : RateLimitReturn(r)
    \/ \E r \in Reqs, readable \in BOOLEAN : UpstreamOk(r, readable)
    \/ \E r \in Reqs, e \in UpstreamErrors : UpstreamFail(r, e)
    \/ \E r \in Reqs : BackoffDone(r)
    \/ \E r \in Reqs, ok \in BOOLEAN : UsageReturn(r, ok)
    \/ \E s \in Slots : QueryBegin(s)
    \/ \E s \in Slots : QueryDelete(s)
    \/ \E s \in Slots : QuerySelect(s)
    \/ \E s \in Slots : QueryInsert(s)
    \/ \E s \in Slots : QueryUpdate(s)
    \/ \E s \in Slots : QueryCommit(s)
    \/ \E s \in Slots : QueryRollback(s)

Spec == Init /\ [][Next]_vars

\* the rate limiter alone: callers of the exported checkRateLimit, a clock, storage failures
SpecRL == Init /\ [][NextRL]_vars

\* one caller at a time on a store that works: the sequential use of the limiter
CallSeq(s, inc) ==
    /\ \A t \in Slots : chk[t].pc \in {"idle", "done"}
    /\ CallCheckRateLimit(s, inc)

InitSeq == Init /\ pgClient = "connected"

NextSeq ==
    \/ \E s \in Slots : \E i \in IncsOf(s[2]) : CallSeq(s, i)
    \/ \E s \in Slots : QueryBegin(s)
    \/ \E s \in Slots : QueryDelete(s)
    \/ \E s \in Slots : QuerySelect(s)
    \/ \E s \in Slots : QueryInsert(s)
    \/ \E s \in Slots : QueryUpdate(s)
    \/ \E s \in Slots : QueryCommit(s)
    \/ \E t \in TimePoints : Tick(t)

SpecSeq == InitSeq /\ [][NextSeq]_vars

\* both exported entry points of the limiter, called concurrently on a store that works
NextUser ==
    \/ \E s \in Slots : \E i \in IncsOf(s[2]) : CallCheckRateLimit(s, i)
    \/ \E r \in Reqs, t \in 0 .. MaxInc : CallCheckUserRateLimits(r, t)
    \/ \E s \in Slots : QueryBegin(s)
    \/ \E s \in Slots : QueryDelete(s)
    \/ \E s \in Slots : QuerySelect(s)
    \/ \E s \in Slots : QueryInsert(s)
    \/ \E s \in Slots : QueryUpdate(s)
    \/ \E s \in Slots : QueryCommit(s)
    \/ \E s \in Slots : QueryRollback(s)
    \/ \E t \in TimePoints : Tick(t)

SpecUser == Init /\ [][NextUser]_vars

\* the gateway on a store whose statements can fail
NextGate ==
    \/ Next
    \/ \E s \in Slots : QueryFault(s)

SpecGate == Init /\ [][NextGate]_vars

\* the upstream call of request r returns or times out
UpstreamReturns(r) ==
    \/ \E readable \in BOOLEAN : UpstreamOk(r, readable)
    \/ \E e \in UpstreamErrors : UpstreamFail(r, e)

\* the gateway when every axios.post settles (timeout: API_TIMEOUT_MS) and every
\* backoff timer fires
SpecLive ==
    /\ Init
    /\ [][Next]_vars
    /\ \A r \in Reqs : WF_vars(UpstreamReturns(r)) /\ WF_vars(BackoffDone(r))

\* upstream failures along each axis of the classification: HTTP statuses,
\* error codes without a response, and messages on a 400
ClassifyStatuses == {400, 401, 402, 403, 404, 429, 499, 500, 503}
ClassifyCodes == {"ECONNABORTED", "ETIMEDOUT", "ENOTFOUND", "ECONNREFUSED", "ECONNRESET",
                  "EHOSTUNREACH", "none"}
ClassifyMessages == {"", "bad", "Rate", "rat", "ratxe", "a limit", "QUOTA"}

ClassifyErrors ==
    {[status |-> st, code |-> "ERR_BAD_REQUEST", message |-> Msg("bad")] : st \in ClassifyStatuses}
    \cup {[status |-> NoStatus, code |-> c, message |-> Msg("bad")] : c \in ClassifyCodes}
    \cup {[status |-> 400, code |-> "ERR_BAD_REQUEST", message |-> Msg(t)] : t \in ClassifyMessages}

\* the dispatcher alone: one request at a time, no store configured, an
\* upstream that fails in every way the classification tells apart
InitClassify == Init /\ pgClient = "null"

NextClassify ==
    \/ \E m \in VALID_MODELS : Receive(1, "ok", m)
    \/ \E r \in Reqs, t \in 1 .. MaxTokens : ValidateReturn(r, "row_valid", 0, t)
    \/ \E r \in Reqs : RateLimitReturn(r)
    \/ \E r \in Reqs, e \in ClassifyErrors : UpstreamFail(r, e)
    \/ \E r \in Reqs : BackoffDone(r)
    \/ \E r \in Reqs : UsageReturn(r, TRUE)

SpecClassify == InitClassify /\ [][NextClassify]_vars

\* the quota gate alone: one request at a time on a store that works, every
\* dispatch succeeding at once
NextQuota ==
    \/ \E m \in VALID_MODELS \ {"orzion-mini"} : Receive(1, "ok", m)
    \/ \E r \in Reqs, u \in 0 .. MaxUsage, t \in 1 .. MaxTokens : ValidateReturn(r, "row_valid", u, t)
    \/ \E r \in Reqs : RateLimitReturn(r)
    \/ \E r \in Reqs : UpstreamOk(r, TRUE)
    \/ \E r \in Reqs : UsageReturn(r, TRUE)
    \/ \E s \in Slots : QueryBegin(s)
    \/ \E s \in Slots : QueryDelete(s)
    \/ \E s \in Slots : QuerySelect(s)
    \/ \E s \in Slots : QueryInsert(s)
    \/ \E s \in Slots : QueryUpdate(s)
    \/ \E s \in Slots : QueryCommit(s)
    \/ \E t \in TimePoints : Tick(t)

SpecQuota == InitSeq /\ [][NextQuota]_vars

\* ================================================================== claims
KeyResetTime(k) == (k[2] + 1) * WindowMs(k[1])

\* C1: with calls on a key made one at a time on a working store, a call is
\* allowed exactly when the sum of the increments made to the key in its window,
\* its own included, is at most the limit; so every call is allowed until the
\* sum exceeds the limit and every later call in the window is denied.
C1_AllowedUntilExceeded ==
    [][\A s \in Slots :
         (chk[s].pc = "COMMIT" /\ chk'[s].pc = "done")
            => (chk'[s].res.allowed <=> applied[DbKey(chk[s].now, s[2])] <= limits[s[2]])]_vars

\* a call denied although the limit had already been exceeded by the call before
C1_Witness ==
    \E s \in Slots : /\ chk[s].pc = "done"
                     /\ ~chk[s].res.allowed
                     /\ chk[s].res.count >= chk[s].res.limit + 2

\* C2: after concurrent checks on one window key have all finished without a
\* storage error, the stored count is the sum of all increments made to the key
\* and the counts the checks returned are pairwise distinct.
C2_NoLostUpdate ==
    (clean /\ queue = <<>>) =>
        /\ \A k \in DbKeys : KeyResetTime(k) >= now => CountOf(committed, k) = applied[k]
        /\ \A s, t \in Slots :
             (/\ s # t /\ s[2] = t[2]
              /\ chk[s].pc = "done" /\ chk[t].pc = "done"
              /\ chk[s].res.count > 0 /\ chk[t].res.count > 0
              /\ chk[s].res.resetTime = chk[t].res.resetTime)
                => chk[s].res.count # chk[t].res.count

\* C3: a check that found the store not configured, or one of whose statements
\* was rejected, returns allowed = true, and in the second case the result
\* carries the error message.
C3_FailOpen ==
    \A s \in Slots : chk[s].pc = "done" =>
        /\ (pgClient = "null" => chk[s].res.allowed)
        /\ (chk[s].failed => chk[s].res.allowed /\ chk[s].res.error # "none")

\* a statement inside the transaction failed, ROLLBACK ran, the call allowed
C3_Witness ==
    \E s \in Slots : /\ chk[s].pc = "done"
                     /\ chk[s].failed
                     /\ chk[s].res.error = "statement failed"
                     /\ chk[s].res.allowed

\* C4: a dispatch that ends on a rotate-worthy failure has made exactly
\* MAX_RETRIES upstream attempts and reports attempts = MAX_RETRIES and the
\* status code of its last attempt.
C4_ExhaustedAfterMaxRetries ==
    \A r \in Reqs :
        (req[r].pc = "usage_exhausted" /\ shouldRotate(req[r].lastError)) =>
            /\ ~req[r].result.success
            /\ req[r].result.attempts = MAX_RETRIES
            /\ req[r].upstream = MAX_RETRIES
            /\ req[r].result.lastStatusCode = req[r].lastError.status

\* three 429 answers in a row
C4_Witness ==
    \E r \in Reqs : /\ req[r].pc = "usage_exhausted"
                    /\ req[r].lastError = E429
                    /\ req[r].result.attempts = 3
                    /\ req[r].result.lastStatusCode = 429

\* C5: once attempt k has failed with an error that is not rotate-worthy the
\* dispatch is over: Exhausted with attempts = k, k upstream calls in all, and
\* only the k - 1 rotations of the earlier failures.
C5_FatalStopsImmediately ==
    \A r \in Reqs :
        req[r].fatalAt > 0 =>
            /\ req[r].pc \in {"usage_exhausted", "usage_error"}
            /\ ~req[r].result.success
            /\ req[r].result.attempts = req[r].fatalAt
            /\ req[r].upstream = req[r].fatalAt
            /\ req[r].rotations = req[r].fatalAt - 1

\* an HTTP 400 on the first attempt
C5_Witness ==
    \E r \in Reqs : /\ req[r].fatalAt = 1
                    /\ req[r].lastError = E400
                    /\ req[r].result.attempts = 1
                    /\ req[r].rotations = 0

\* C6: from the success of its dispatch until its response, a request sees the
\* failure count of its model at 0, unless another request rotated the model
\* in between.
C6_SuccessResetsFailures ==
    \A r \in Reqs :
        (req[r].pc = "usage_ok" /\ ~req[r].clobbered) =>
            API_KEY_CONFIG[req[r].model].failureCount = 0

\* success on a later attempt, after this request's own failure and rotation
C6_Witness ==
    \E r \in Reqs : /\ req[r].pc = "usage_ok"
                    /\ req[r].rotations >= 1
                    /\ ~req[r].clobbered
                    /\ req[r].result.success

Rejected == {400, 401, 429}

\* C7: a request answered 400, 401 or 429 has issued no upstream call and no
\* rotation, and the step that rejects it leaves every pool entry as it was.
C7_RejectedBeforeDispatch ==
    [][\A r \in Reqs :
         req'[r].status \in Rejected =>
            /\ req'[r].upstream = 0
            /\ req'[r].rotations = 0
            /\ (req[r].status \notin Rejected => API_KEY_CONFIG' = API_KEY_CONFIG)]_vars

\* a denial by the rate limiter
C7_Witness ==
    \E r \in Reqs : /\ req[r].pc = "usage_error"
                    /\ req[r].status = 429
                    /\ req[r].details = "rate_limit_exceeded"

\* C8: when the declared daily limit is not -1 and the account store reported
\* requestsToday >= dailyRequests, the gate denies the request (429), whatever
\* the window counters said.
C8_DualCheck ==
    [][\A r \in Reqs :
         (/\ req[r].pc = "ratelimit" /\ req'[r].pc # "ratelimit"
          /\ limits["daily_requests"] # Unlimited
          /\ req[r].requestsToday >= limits["daily_requests"])
            => (req'[r].status = 429 /\ req'[r].upstream = 0)]_vars

\* denied by the account's own counter although every window check allowed
C8_Witness ==
    \E r \in Reqs : /\ req[r].pc = "usage_error"
                    /\ req[r].status = 429
                    /\ req[r].details = "daily_requests_exceeded_db"

RECURSIVE RotateTimes(_, _, _)
RotateTimes(cfg, m, k) == IF k = 0 THEN cfg ELSE RotateTimes(rotateApiKey(cfg, m), m, k - 1)

\* C9: in a pool of N >= 1 credentials one rotation moves index i to
\* (i + 1) mod N; N rotations in a row visit every index once and end on the
\* index they started from.
C9_RotationCyclic ==
    \A m \in VALID_MODELS :
        LET N == API_KEY_CONFIG[m].keys
            i == API_KEY_CONFIG[m].currentIndex
        IN N >= 1 =>
            /\ i \in 0 .. N - 1
            /\ rotateApiKey(API_KEY_CONFIG, m)[m].currentIndex = (i + 1) % N
            /\ RotateTimes(API_KEY_CONFIG, m, N)[m].currentIndex = i
            /\ {RotateTimes(API_KEY_CONFIG, m, k)[m].currentIndex : k \in 0 .. N - 1} = 0 .. N - 1

\* a pool of at least two credentials rotated all the way round by requests
C9_Witness ==
    \E m \in VALID_MODELS : /\ API_KEY_CONFIG[m].keys >= 2
                            /\ API_KEY_CONFIG[m].currentIndex = 0
                            /\ API_KEY_CONFIG[m].failureCount >= API_KEY_CONFIG[m].keys

\* C10: allKeysFailed(model) holds exactly when every credential of the pool
\* was used in a failed upstream attempt since the last reset.
C10_AllFailedIffEveryKeyFailed ==
    \A m \in VALID_MODELS :
        allKeysFailed(API_KEY_CONFIG, m) <=> (failedKeys[m] = 0 .. API_KEY_CONFIG[m].keys - 1)

\* C11: whatever the requests have fetched, rotated and reset so far, a model
\* with a non-empty credential list has 0 <= currentIndex < number of
\* credentials and failureCount >= 0.
C11_IndexInRange ==
    \A m \in VALID_MODELS :
        API_KEY_CONFIG[m].keys > 0 =>
            /\ API_KEY_CONFIG[m].currentIndex >= 0
            /\ API_KEY_CONFIG[m].currentIndex < API_KEY_CONFIG[m].keys
            /\ API_KEY_CONFIG[m].failureCount >= 0

\* the index stands on the last credential of a pool after rotations
C11_Witness ==
    \E m \in VALID_MODELS : /\ API_KEY_CONFIG[m].keys >= 2
                            /\ API_KEY_CONFIG[m].currentIndex = API_KEY_CONFIG[m].keys - 1
                            /\ API_KEY_CONFIG[m].failureCount > 0

\* C12: a dimension whose limit is -1 never has a statement pending or a row in
\* the store; a direct check on it returns allowed at once and the step that
\* makes the call leaves the store and the query queue as they were.
C12_UnlimitedNeverTouchesStore ==
    [][\A s \in Slots :
         limits[s[2]] = Unlimited =>
            /\ chk[s].pc \in {"idle", "done"}
            /\ (chk[s].pc = "done" => chk[s].res.allowed)
            /\ \A i \in 1 .. Len(queue) : queue[i] # s
            /\ \A row \in table \cup committed : row.key[1] # s[2]
            /\ applied[WindowKey(now, s[2])] = 0
            /\ (chk'[s] # chk[s] /\ chk'[s].pc # "idle")
                  => /\ chk'[s].pc = "done"
                     /\ chk'[s].res.allowed
                     /\ table' = table
                     /\ committed' = committed
                     /\ queue' = queue]_vars

\* a direct check with limit -1 answered on a connected store that already holds rows
C12_Witness ==
    \E s \in Slots : /\ limits[s[2]] = Unlimited
                     /\ pgClient = "connected"
                     /\ chk[s].pc = "done"
                     /\ chk[s].res.remaining = Unlimited
                     /\ committed # {}

\* C13: with calls made one at a time, the count a check returns is the sum of
\* the increments made to its key in its own window, its reset time is that
\* window's, and it is allowed whenever that sum is within the limit, whatever
\* earlier windows of the key have counted.
C13_WindowIndependence ==
    [][\A s \in Slots :
         (chk[s].pc = "COMMIT" /\ chk'[s].pc = "done")
            => LET k == WindowKey(chk[s].now, s[2]) IN
               /\ chk'[s].res.count = applied[k]
               /\ chk'[s].res.resetTime = KeyResetTime(k)
               /\ (applied[k] <= limits[s[2]] => chk'[s].res.allowed)]_vars

\* allowed in a new window although the window of instant 0 went over the limit
C13_Witness ==
    \E s \in Slots : /\ chk[s].pc = "done"
                     /\ chk[s].res.allowed
                     /\ chk[s].res.count > 0
                     /\ chk[s].res.resetTime > MinuteMs
                     /\ WindowOf(now, s[2]) > 0
                     /\ applied[WindowKey(0, s[2])] > limits[s[2]]

\* C14: when the dimension checks of a request have settled, the request is
\* denied by the limiter exactly when one of the checks performed returned
\* allowed = false, and the details attached are the result of such a check.
C14_AggregateDeniesIffSomeDenied ==
    [][\A r \in Reqs :
         (req[r].pc = "ratelimit" /\ req'[r].pc # "ratelimit")
            => LET denying == {d \in Dims : /\ chk[<<r, d>>].pc = "done"
                                            /\ ~chk[<<r, d>>].res.allowed}
               IN /\ (req'[r].details = "rate_limit_exceeded") <=> (denying # {})
                  /\ denying # {} => /\ req'[r].status = 429
                                     /\ req'[r].denied \in {chk[<<r, d>>].res : d \in denying}
                  /\ denying = {} => req'[r].denied = NoRes]_vars

\* a denial carrying the over-limit result of the dimension that denied
C14_Witness ==
    \E r \in Reqs : /\ req[r].pc = "usage_error"
                    /\ req[r].details = "rate_limit_exceeded"
                    /\ ~req[r].denied.allowed
                    /\ req[r].denied.limit > 0
                    /\ req[r].denied.count > req[r].denied.limit

\* C15: when a dimension check of a request has hit a storage error, the
\* request is denied by the limiter exactly when one of its other dimension
\* checks returned allowed = false; the failed dimension itself counts as allowed.
C15_FailedDimensionCountsAsAllowed ==
    [][\A r \in Reqs :
         (/\ req[r].pc = "ratelimit" /\ req'[r].pc # "ratelimit"
          /\ \E d \in Dims : chk[<<r, d>>].pc = "done" /\ chk[<<r, d>>].failed)
            => LET others == {d \in Dims : chk[<<r, d>>].pc = "done" /\ ~chk[<<r, d>>].failed}
               IN /\ \A d \in Dims : chk[<<r, d>>].failed => chk[<<r, d>>].res.allowed
                  /\ (req'[r].details = "rate_limit_exceeded")
                        <=> (\E d \in others : ~chk[<<r, d>>].res.allowed)
                  /\ (\A d \in others : chk[<<r, d>>].res.allowed)
                        => (req'[r].status = 429 => req'[r].details = "daily_requests_exceeded_db")]_vars

\* denied by one dimension while another dimension of the same request had failed
C15_Witness ==
    \E r \in Reqs : /\ req[r].pc = "usage_error"
                    /\ req[r].details = "rate_limit_exceeded"
                    /\ req[r].errorBeside

\* C16: a request that has been answered has status 400 when an input field
\* was invalid, 401 when the credential was missing or invalid, 429 when the
\* quota gate denied, 503 when the upstream was exhausted, 500 when an
\* unexpected failure happened, and 200 only after a successful upstream call.
C16_StatusByCause ==
    \A r \in Reqs :
        req[r].pc = "done" =>
            /\ req[r].status \in {200, 400, 401, 429, 500, 503}
            /\ req[r].cause = "input" => req[r].status = 400
            /\ req[r].cause = "auth" => req[r].status = 401
            /\ req[r].cause = "quota" => req[r].status = 429
            /\ req[r].cause = "exhausted" => req[r].status = 503
            /\ req[r].cause = "unexpected" => req[r].status = 500
            /\ req[r].status = 200 => req[r].cause = "ok"

\* C17: a request for a model without credentials never has an upstream call
\* or a backoff pending, makes no upstream call and no rotation, leaves the
\* dispatch after one failed attempt, and is answered with 503.
C17_NoCredentialsIs503 ==
    [][\A r \in Reqs :
         (req[r].model \in VALID_MODELS /\ API_KEY_CONFIG[req[r].model].keys = 0) =>
            /\ req[r].pc \notin {"upstream", "backoff"}
            /\ req[r].upstream = 0
            /\ req[r].rotations = 0
            /\ req[r].pc = "usage_exhausted" =>
                  /\ req[r].result.attempts = 1
                  /\ req[r].lastError = ENoKeys
                  /\ req[r].result.statusCode = 503
            /\ (req[r].result.attempts > 0 /\ req'[r].pc = "done") => req'[r].status = 503]_vars

\* a request for the model without credentials about to be answered 503
C17_Witness ==
    \E r \in Reqs : /\ req[r].pc = "usage_error"
                    /\ req[r].model = "orzion-mini"
                    /\ req[r].status = 503
                    /\ req[r].lastError = ENoKeys
                    /\ req[r].upstream = 0

\* C18: the step that rejects a request for an invalid input or for a missing
\* or invalid credential leaves every limiter check, the query queue and the
\* counter rows as they were, and no dimension check was ever started for it.
C18_RejectedBeforeQuotaWork ==
    [][\A r \in Reqs :
         /\ req[r].cause \in {"input", "auth"} => \A d \in Dims : chk[<<r, d>>].pc = "idle"
         /\ (req'[r].cause \in {"input", "auth"} /\ req[r].cause = "none")
               => /\ chk' = chk
                  /\ queue' = queue
                  /\ table' = table
                  /\ committed' = committed
                  /\ applied' = applied]_vars

\* a request whose credential the account store found invalid
C18_Witness ==
    \E r \in Reqs : /\ req[r].pc = "usage_error"
                    /\ req[r].cause = "auth"
                    /\ req[r].status = 401
                    /\ req[r].usageCalls = 1

\* C19: whatever updateApiUsage returned, a success is answered 200, an error
\* is answered with the status and details it already had, an exhausted
\* dispatch goes on to its 503, and the request records nothing again.
C19_UsageFailureIsolated ==
    [][\A r \in Reqs :
         /\ (req[r].pc = "usage_ok" /\ req'[r].pc # "usage_ok")
               => (req'[r].pc = "done" /\ req'[r].status = 200)
         /\ (req[r].pc = "usage_error" /\ req'[r].pc # "usage_error")
               => /\ req'[r].pc = "done"
                  /\ req'[r].status = req[r].status
                  /\ req'[r].details = req[r].details
         /\ (req[r].pc = "usage_exhausted" /\ req'[r].pc # "usage_exhausted")
               => /\ req'[r].pc = "usage_error"
                  /\ req'[r].status = 503
                  /\ req'[r].usageCalls = req[r].usageCalls + 1]_vars

\* answered 200 although the recording of the request had failed
C19_Witness ==
    \E r \in Reqs : /\ req[r].pc = "done"
                    /\ req[r].status = 200
                    /\ req[r].usageFailed

\* the response is determined and an updateApiUsage call of the request is in flight
UsagePending(r) == req[r].pc \in {"usage_ok", "usage_error"}

ResponseSent(r) == req[r].pc = "done"

\* C20: whenever the usage recording of a request is in flight, its response
\* has already been sent.
C20_FireAndForget ==
    \A r \in Reqs : UsagePending(r) => ResponseSent(r)

\* which dimension the 429 names: the message of the account-counter denial
\* says "Daily request limit" (supabase.js line 79); the limiter denial's message
\* (line 70) and its details (the result of part_003 lines 128-134) name no key
QuotaDimension(q) ==
    IF q.details = "daily_requests_exceeded_db" THEN "daily_requests" ELSE "none"

\* details.resetTime of the 429; the account-counter denial has no details
QuotaResetTime(q) == q.denied.resetTime

\* C21: a request being answered 429 by the quota gate names the dimension that
\* was exceeded and carries that dimension's reset time, whether the limiter or
\* the account's own daily counter denied it.
C21_DenialCarriesDimensionAndReset ==
    \A r \in Reqs :
        (req[r].pc = "usage_error" /\ req[r].cause = "quota") =>
            /\ QuotaDimension(req[r]) \in Dims
            /\ QuotaResetTime(req[r]) > 0

\* requests whose dispatch rotates the pool of model m in the step
Rotating(m) == {r \in Reqs : req[r].model = m /\ req'[r].rotations = req[r].rotations + 1}

\* C22: whatever other requests are in flight on the same model, a step in
\* which k dispatches rotate a pool of N credentials takes the index from i to
\* (i + k) mod N and the failure count from f to f + k; no rotation is lost to
\* another one.
C22_RotationAtomic ==
    [][\A m \in VALID_MODELS :
         LET k == Cardinality(Rotating(m))
             N == API_KEY_CONFIG[m].keys
         IN (k > 0 /\ N > 0) =>
               /\ API_KEY_CONFIG'[m].currentIndex = (API_KEY_CONFIG[m].currentIndex + k) % N
               /\ API_KEY_CONFIG'[m].failureCount = API_KEY_CONFIG[m].failureCount + k
               /\ \A o \in VALID_MODELS \ {m} : API_KEY_CONFIG'[o] = API_KEY_CONFIG[o]]_vars

\* two requests that posted with the same credential have both failed and rotated
C22_Witness ==
    \E r, o \in Reqs : /\ r # o
                       /\ req[r].model = req[o].model
                       /\ req[r].pc = "backoff" /\ req[o].pc = "backoff"
                       /\ req[r].rotations = 1 /\ req[o].rotations = 1
                       /\ API_KEY_CONFIG[req[r].model].keys = MaxKeys
                       /\ API_KEY_CONFIG[req[r].model].currentIndex = 2
                       /\ API_KEY_CONFIG[req[r].model].failureCount = 2

\* C23: when a check one of whose statements failed returns, and it is the only
\* check that ever reached the store for its window key, the key has no
\* committed count: the failed check has left no increment behind.
C23_FailedCheckLeavesNoIncrement ==
    [][\A s \in Slots :
         (/\ chk[s].pc \notin {"idle", "done"}
          /\ chk'[s].pc = "done"
          /\ chk'[s].failed
          /\ applied[WindowKey(chk[s].now, s[2])] = chk[s].increment)
            => CountOf(committed', DbKey(chk[s].now, s[2])) = 0]_vars

\* the dispatch of request r is running: a post is in flight or a backoff timer is set
InDispatch(r) == req[r].pc \in {"upstream", "backoff"}

\* makeApiCallWithRetry has returned Success or Exhausted to the handler
DispatchReturned(r) ==
    /\ req[r].pc \in {"usage_ok", "usage_exhausted", "usage_error"}
    /\ \/ req[r].result.success
       \/ req[r].result.attempts \in 1 .. MAX_RETRIES

\* C24: when every upstream call returns or times out, a dispatch that has
\* started returns Success or Exhausted, and no dispatch ever makes more than
\* MAX_RETRIES upstream attempts.
C24_DispatchTerminates ==
    /\ [](\A r \in Reqs : req[r].upstream <= MAX_RETRIES /\ req[r].retryCount <= MAX_RETRIES)
    /\ \A r \in Reqs : InDispatch(r) ~> DispatchReturned(r)

\* a dispatch that returned Exhausted after MAX_RETRIES upstream attempts
C24_Witness ==
    \E r \in Reqs : /\ DispatchReturned(r)
                    /\ ~req[r].result.success
                    /\ req[r].upstream = MAX_RETRIES
                    /\ req[r].result.attempts = MAX_RETRIES

\* C25: with calls made one at a time on a working store, a check with a finite
\* limit returns count = the count stored for its window key before the call
\* (0 if absent) + its increment, leaves that count committed whether or not it
\* allows, and returns allowed exactly when count <= limit, remaining =
\* max(0, limit - count) and resetTime = (window index + 1) * window size.
C25_CountPersistedAndCompared ==
    [][\A s \in Slots :
         (chk[s].pc = "COMMIT" /\ chk'[s].pc = "done")
            => LET w == chk[s].now \div WindowMs(s[2])
                   k == <<s[2], w>>
                   c == CountOf(committed, k) + chk[s].increment
                   res == chk'[s].res
               IN /\ limits[s[2]] # Unlimited
                  /\ res.error = "none"
                  /\ res.count = c
                  /\ CountOf(committed', k) = c
                  /\ res.allowed <=> (c <= limits[s[2]])
                  /\ res.remaining = (IF limits[s[2]] - c > 0 THEN limits[s[2]] - c ELSE 0)
                  /\ res.resetTime = (w + 1) * WindowMs(s[2])]_vars

\* a denied call whose count, already over the limit, was stored all the same
C25_Witness ==
    \E s \in Slots : /\ chk[s].pc = "done"
                     /\ ~chk[s].res.allowed
                     /\ chk[s].res.remaining = 0
                     /\ chk[s].res.count > limits[s[2]]
                     /\ \E row \in committed : /\ row.key[1] = s[2]
                                               /\ row.count = chk[s].res.count
                                               /\ row.reset_time = chk[s].res.resetTime

CasePairs == {<<"A", "a">>, <<"I", "i">>, <<"L", "l">>, <<"M", "m">>, <<"N", "n">>,
              <<"O", "o">>, <<"Q", "q">>, <<"R", "r">>, <<"T", "t">>, <<"U", "u">>}

SameLetter(a, b) == a = b \/ <<a, b>> \in CasePairs \/ <<b, a>> \in CasePairs

\* msg contains word, whatever the case of its letters
ContainsWord(msg, word) ==
    \E i \in 1 .. Len(msg) :
        /\ i + Len(word) - 1 <= Len(msg)
        /\ \A j \in 1 .. Len(word) : SameLetter(msg[i + j - 1], word[j])

\* rotate-worthy as the classification is stated; a connection or timeout error
\* is one with a code the dispatcher tests for (lines 476-477)
RotateWorthy(e) ==
    \/ e.status \in {429, 401, 403}
    \/ e.status >= 500
    \/ e.code \in {"ECONNABORTED", "ETIMEDOUT", "ENOTFOUND", "ECONNREFUSED", "ECONNRESET"}
    \/ \E w \in {<<"r", "a", "t", "e">>, <<"l", "i", "m", "i", "t">>, <<"q", "u", "o", "t", "a">>} :
          ContainsWord(e.message, w)

CanStep(o) ==
    CASE req[o].pc = "validate" -> ENABLED (\E v \in StoreOutcomes : ValidateReturn(o, v, 0, 1))
      [] req[o].pc = "upstream" -> ENABLED UpstreamReturns(o)
      [] req[o].pc = "backoff" -> ENABLED BackoffDone(o)
      [] req[o].pc \in {"usage_ok", "usage_exhausted", "usage_error"} ->
            ENABLED (\E ok \in BOOLEAN : UsageReturn(o, ok))
      [] OTHER -> TRUE

\* C27: the step in which attempt k < MAX_RETRIES fails rotate-worthy rotates
\* the pool and sets a timer of k * RETRY_DELAY_MS without starting an attempt;
\* attempt k + 1 starts when the timer fires; and while a request waits, every
\* other request in flight can take its next step.
C27_RotateThenLinearBackoff ==
    /\ [][\A r \in Reqs :
            /\ (req[r].pc = "upstream" /\ req'[r].pc = "backoff")
                  => LET k == req'[r].retryCount
                         m == req[r].model
                         N == API_KEY_CONFIG[m].keys
                     IN /\ k = req[r].retryCount + 1
                        /\ k < MAX_RETRIES
                        /\ req'[r].delay = k * RETRY_DELAY_MS
                        /\ req'[r].upstream = k
                        /\ API_KEY_CONFIG'[m].currentIndex = (API_KEY_CONFIG[m].currentIndex + 1) % N
                        /\ \A o \in Reqs \ {r} : req'[o].pc = req[o].pc /\ req'[o].delay = req[o].delay
            /\ (req[r].pc = "backoff" /\ req'[r].pc # "backoff")
                  => /\ req'[r].pc = "upstream"
                     /\ req'[r].upstream = req[r].retryCount + 1
                     /\ req'[r].retryCount = req[r].retryCount
                     /\ API_KEY_CONFIG' = API_KEY_CONFIG
                     /\ req'[r].keyIndex = API_KEY_CONFIG[req[r].model].currentIndex]_vars
    /\ [](\A r, o \in Reqs : (r # o /\ req[r].pc = "backoff") => CanStep(o))

\* one request waits 2 * RETRY_DELAY_MS after its second failure while another has a post in flight
C27_Witness ==
    \E r, o \in Reqs : /\ r # o
                       /\ req[r].pc = "backoff"
                       /\ req[r].retryCount = 2
                       /\ req[r].delay = 2 * RETRY_DELAY_MS
                       /\ req[r].rotations = 2
                       /\ req[o].pc = "upstream"

\* C28: the Exhausted result of a dispatch reports the status code, the message
\* and the error code of the error its final attempt ended with, and attempts =
\* the number of attempts made (each one a post, or the failed fetch of a
\* credential), whatever the earlier attempts failed with.
C28_DiagnosticsOfLastAttempt ==
    \A r \in Reqs :
        req[r].pc = "usage_exhausted" =>
            /\ ~req[r].result.success
            /\ req[r].result.lastStatusCode = req[r].thrown.status
            /\ req[r].result.lastErrorMessage = req[r].thrown.message
            /\ req[r].result.errorCode = req[r].thrown.code
            /\ req[r].result.attempts =
                  req[r].upstream + (IF req[r].thrown = ENoKeys THEN 1 ELSE 0)

\* Exhausted on a 400 at the second attempt, after a 429 at the first
C28_Witness ==
    \E r \in Reqs : /\ req[r].pc = "usage_exhausted"
                    /\ req[r].rotations = 1
                    /\ req[r].result.attempts = 2
                    /\ req[r].result.lastStatusCode = 400
                    /\ req[r].result.lastErrorMessage = Msg("bad")
                    /\ req[r].result.errorCode = "ERR_BAD_REQUEST"

\* request r resets the failure count of its model in the step (line 276)
Resetting(m) ==
    {r \in Reqs : /\ req[r].model = m /\ req[r].pc = "upstream"
                  /\ req'[r].pc # "upstream" /\ req'[r].result.success}

\* C29: in every step a pool entry keeps its credentials; its index changes
\* only when a dispatch on that model rotates, its failure count only by such
\* a rotation (+1) or by the reset after a success of a request on that model
\* (to 0), which leaves the index alone; fetching the current credential and
\* building the Exhausted diagnostics change nothing; and rotating an empty
\* pool or reading the statistics leaves every entry as it was.
C29_PoolFrame ==
    /\ [][\A m \in VALID_MODELS :
            LET old == API_KEY_CONFIG[m]
                new == API_KEY_CONFIG'[m]
            IN /\ new.keys = old.keys
               /\ new.currentIndex # old.currentIndex => Rotating(m) # {}
               /\ new.failureCount # old.failureCount
                     => \/ Rotating(m) # {} /\ new.failureCount = old.failureCount + 1
                        \/ Resetting(m) # {} /\ new.failureCount = 0
               /\ Resetting(m) # {} => new.currentIndex = old.currentIndex /\ new.failureCount = 0
               /\ (\E r \in Reqs : req[r].pc \in {"ratelimit", "backoff"} /\ req'[r].pc = "upstream")
                     => new = old
               /\ (\E r \in Reqs : req[r].pc # "usage_exhausted" /\ req'[r].pc = "usage_exhausted")
                     => new = old]_vars
    /\ [](\A m \in VALID_MODELS :
            /\ API_KEY_CONFIG[m].keys = 0 => rotateApiKey(API_KEY_CONFIG, m) = API_KEY_CONFIG
            /\ \A o \in VALID_MODELS \ {m} :
                  /\ rotateApiKey(API_KEY_CONFIG, m)[o] = API_KEY_CONFIG[o]
                  /\ resetFailureCount(API_KEY_CONFIG, m)[o] = API_KEY_CONFIG[o]
            /\ resetFailureCount(API_KEY_CONFIG, m)[m].currentIndex = API_KEY_CONFIG[m].currentIndex
            /\ getRotationStats(API_KEY_CONFIG, m).currentKeyIndex = getCurrentApiKey(API_KEY_CONFIG, m))

\* a success after a rotation: the failure count is back at 0, the index stays on the second credential
C29_Witness ==
    \E r \in Reqs : /\ req[r].pc = "usage_ok"
                    /\ req[r].rotations = 1
                    /\ API_KEY_CONFIG[req[r].model].failureCount = 0
                    /\ API_KEY_CONFIG[req[r].model].currentIndex = 1
                    /\ \A m \in VALID_MODELS \ {req[r].model} : API_KEY_CONFIG[m].currentIndex = 0

\* C30: when a check returns a result without an error while the window of its
\* key is still open, the store holds a committed count of at least its
\* increment for that key: no other check's ROLLBACK or COMMIT has discarded
\* its write.
C30_ReturnedCountIsCommitted ==
    [][\A s \in Slots :
         (/\ chk[s].pc = "COMMIT"
          /\ chk'[s].pc = "done"
          /\ chk'[s].res.error = "none"
          /\ KeyResetTime(WindowKey(chk[s].now, s[2])) >= now)
            => CountOf(committed', DbKey(chk[s].now, s[2])) >= chk[s].increment]_vars

\* C31: on a model with at least two credentials, the attempt a request starts
\* when its backoff ends uses a credential other than the one its previous
\* attempt failed on, whatever other requests on the model did meanwhile.
C31_RetryUsesAnotherCredential ==
    [][\A r \in Reqs :
         (/\ req[r].pc = "backoff"
          /\ req'[r].pc = "upstream"
          /\ API_KEY_CONFIG[req[r].model].keys >= 2)
            => req'[r].keyIndex # req[r].keyIndex]_vars

\* C32: with one request at a time, the attempts of a dispatch fetch the
\* credential indices i, i + 1, i + 2 (mod N) in that order, i being the pool's
\* index when the dispatch started, so that in a pool of at least MAX_RETRIES
\* credentials no attempt uses a credential an earlier one used.
C32_AttemptsWalkThePool ==
    [][\A r \in Reqs :
         (req[r].pc \in {"ratelimit", "backoff"} /\ req'[r].pc = "upstream")
            => LET u == req'[r].used
                   N == API_KEY_CONFIG[req[r].model].keys
               IN /\ Len(u) = req'[r].upstream
                  /\ u[Len(u)] = req'[r].keyIndex
                  /\ req[r].pc = "ratelimit" => u = <<API_KEY_CONFIG[req[r].model].currentIndex>>
                  /\ \A j \in 1 .. Len(u) : u[j] = (u[1] + j - 1) % N
                  /\ N >= MAX_RETRIES => \A j, l \in 1 .. Len(u) : j # l => u[j] # u[l]]_vars

\* a third attempt in a pool of three that started on the last credential
C32_Witness ==
    \E r \in Reqs : /\ req[r].pc = "upstream"
                    /\ req[r].used = <<2, 0, 1>>
                    /\ API_KEY_CONFIG[req[r].model].keys = 3

\* C33: no request invokes updateApiUsage more than once.
C33_UsageRecordedAtMostOnce ==
    \A r \in Reqs : req[r].usageCalls <= 1

\* C34: a dispatch never makes more than MAX_RETRIES - 1 rotations; with one
\* request at a time the failure count of its model moves only with its
\* rotations, and the step in which the last of MAX_RETRIES rotate-worthy
\* failures ends the dispatch rotates nothing: MAX_RETRIES - 1 rotations were
\* made and the pool's current credential is the one that just failed.
C34_NoRotationAfterFinalAttempt ==
    /\ [](\A r \in Reqs : req[r].rotations <= MAX_RETRIES - 1)
    /\ [][\A r \in Reqs :
            LET m == req[r].model IN
            /\ InDispatch(r) =>
                  API_KEY_CONFIG'[m].failureCount - API_KEY_CONFIG[m].failureCount
                     = req'[r].rotations - req[r].rotations
            /\ (/\ req[r].pc = "upstream"
                /\ req'[r].pc = "usage_exhausted"
                /\ req'[r].retryCount = MAX_RETRIES
                /\ RotateWorthy(req'[r].lastError))
                  => /\ API_KEY_CONFIG' = API_KEY_CONFIG
                     /\ req'[r].rotations = MAX_RETRIES - 1
                     /\ req'[r].result.attempts = MAX_RETRIES
                     /\ API_KEY_CONFIG'[m].currentIndex = req[r].keyIndex]_vars

\* Exhausted after three timeouts in a pool of three: two rotations, the index on the third credential
C34_Witness ==
    \E r \in Reqs : /\ req[r].pc = "usage_exhausted"
                    /\ req[r].result.attempts = MAX_RETRIES
                    /\ req[r].rotations = 2
                    /\ req[r].lastError.code = "ETIMEDOUT"
                    /\ API_KEY_CONFIG[req[r].model].keys = 3
                    /\ API_KEY_CONFIG[req[r].model].currentIndex = 2
                    /\ API_KEY_CONFIG[req[r].model].failureCount = 2

\* the window key a finished check counted in, read off its reset time
KeyOfResult(d, res) == <<d, (res.resetTime \div WindowMs(d)) - 1>>

\* C35: with one request at a time on a working store, the quota gate starts
\* one check for every dimension whose limit is finite and positive (increment
\* 1 for the request dimensions, the token estimate for the token dimension)
\* and none for the others; and when the checks have settled, whether the
\* request is then let through, denied by the limiter or denied by the
\* account's own daily counter, the committed count of each such dimension's
\* window is the sum of the increments made to it, this request's included.
C35_DeniedRequestStillConsumes ==
    [][\A r \in Reqs :
         /\ (req[r].pc = "validate" /\ req'[r].pc = "ratelimit")
               => \A d \in Dims :
                     LET k == WindowKey(now, d) IN
                     IF limits[d] > 0
                     THEN /\ chk'[<<r, d>>].pc = "BEGIN"
                          /\ chk'[<<r, d>>].increment >= 1
                          /\ d # "tokens_per_minute" => chk'[<<r, d>>].increment = 1
                          /\ applied'[k] = applied[k] + chk'[<<r, d>>].increment
                     ELSE /\ chk'[<<r, d>>].pc = "idle"
                          /\ applied'[k] = applied[k]
         /\ (req[r].pc = "ratelimit" /\ req'[r].pc # "ratelimit")
               => \A d \in Dims :
                     limits[d] > 0 =>
                        LET res == chk[<<r, d>>].res
                            k == KeyOfResult(d, res)
                        IN /\ chk[<<r, d>>].pc = "done"
                           /\ res.error = "none"
                           /\ res.count = applied[k]
                           /\ CountOf(committed, k) = applied[k]
                           /\ CountOf(committed', k) = applied[k]]_vars

\* a request denied by the account's own counter although every window check
\* allowed it: the counters of its dimensions hold its increments
C35_Witness ==
    \E r \in Reqs :
        /\ req[r].pc = "usage_error"
        /\ req[r].status = 429
        /\ req[r].details = "daily_requests_exceeded_db"
        /\ \A d \in Dims : limits[d] > 0 => \E row \in committed : row.key[1] = d /\ row.count >= 1

\* the maintenance entry point, called with its default argument: one DELETE
\* on the shared connection, whose bound is the instant of the call
cleanupExpiredCounters(olderThan) ==
    /\ pgClient = "connected"
    /\ olderThan <= now
    /\ IF txState = "aborted"
       THEN UNCHANGED <<table, committed>>
       ELSE /\ table' = DeleteExpired(table, olderThan)
            /\ committed' = Durable(table')
    /\ UNCHANGED <<gwVars, now, pgClient, txState, queue, chk, calls, faults, applied, clean, limits>>

NextGC ==
    \/ NextSeq
    \/ \E t \in TimePoints : cleanupExpiredCounters(t)

\* the sequential limiter together with the maintenance clean-up
SpecGC == InitSeq /\ [][NextGC]_vars

\* the stored key of the check whose statement the connection runs next
RunningKey == DbKey(chk[Head(queue)].now, Head(queue)[2])

\* rows of tab, other than the running check's own, whose window is open at instant t
OtherOpenRows(tab, t) ==
    {r \in tab : r.reset_time > t /\ (queue # <<>> => r.key # RunningKey)}

\* C36: with one check at a time on a working store, no step of a check and no
\* maintenance clean-up removes or alters a counter row of another key whose
\* window is still open, neither in the session's view nor in the committed
\* table: the clean-up deletes rows whose reset time is earlier than now only.
C36_OpenCountersOfOtherKeysKept ==
    [][/\ OtherOpenRows(table, now) \subseteq table'
       /\ OtherOpenRows(committed, now) \subseteq committed']_vars

\* the clean-up of a check at the later instant has removed the expired
\* per-second row and has left the counted daily row, whose window is open
C36_Witness ==
    \E s \in Slots :
        /\ chk[s].pc = "SELECT"
        /\ chk[s].now = MinuteMs
        /\ s[2] # "daily_requests"
        /\ applied[WindowKey(0, "requests_per_second")] > 0
        /\ ~HasRow(table, WindowKey(0, "requests_per_second"))
        /\ CountOf(table, WindowKey(0, "daily_requests")) >= 1

\* the attempt of request r ended in this step with the error of a 2xx that has no choices[0]
BadShapeThrown(r) ==
    /\ req[r].pc = "upstream"
    /\ req'[r].pc # "upstream"
    /\ req'[r].thrown = EBadShape

\* C37: a 2xx response without choices[0] ends the dispatch at once: the
\* result is Exhausted with attempts equal to the number of the attempt that
\* failed, status code 503 and no upstream status, the pool entry of every model
\* is left as it was (no rotation, the failure count neither raised nor
\* reset), no further attempt follows, and the handler's steps that follow
\* leave the pool alone as well.
C37_BadShapeIsFatal ==
    [][\A r \in Reqs :
         /\ BadShapeThrown(r) =>
               /\ req'[r].pc = "usage_exhausted"
               /\ req'[r].result.success = FALSE
               /\ req'[r].result.attempts = Len(req[r].used)
               /\ req'[r].result.attempts = req[r].retryCount + 1
               /\ req'[r].result.lastStatusCode = NoStatus
               /\ req'[r].result.statusCode = 503
               /\ req'[r].result.lastErrorMessage = EBadShape.message
               /\ req'[r].rotations = req[r].rotations
               /\ req'[r].upstream = req[r].upstream
               /\ API_KEY_CONFIG' = API_KEY_CONFIG
         /\ (req[r].pc \in {"usage_exhausted", "usage_error"} /\ req'[r] # req[r]) =>
               /\ req'[r].pc \in {"usage_error", "done"}
               /\ API_KEY_CONFIG' = API_KEY_CONFIG]_vars

\* the second attempt of a dispatch got a 2xx without choices[0] after one
\* rotation: Exhausted with two attempts, the failure count still 1
C37_Witness ==
    \E r \in Reqs :
        /\ req[r].pc = "usage_exhausted"
        /\ req[r].thrown = EBadShape
        /\ req[r].result.attempts = 2
        /\ req[r].rotations = 1
        /\ API_KEY_CONFIG[req[r].model].keys >= 2
        /\ API_KEY_CONFIG[req[r].model].failureCount = 1

\* the store did not vouch for the credential of request r
StoreFailed(o) == o \in {"error", "throws", "no_row"}

\* C38: when the account store returns an error, throws, or returns no row
\* for the credential, the request is rejected with 401: the step that takes
\* the validation's result starts no dimension check, queues no statement and
\* adds to no counter, the request makes no upstream call and its response,
\* once usage is recorded, has status 401.
C38_ValidationFailClosed ==
    [][\A r \in Reqs :
         /\ (req[r].pc = "validate" /\ req'[r].pc # "validate" /\ StoreFailed(req'[r].store))
               => /\ req'[r].pc = "usage_error"
                  /\ req'[r].status = 401
                  /\ req'[r].upstream = 0
                  /\ \A d \in Dims : chk'[<<r, d>>].pc = "idle"
                  /\ <<chk, queue, applied, table, committed>>' = <<chk, queue, applied, table, committed>>
                  /\ API_KEY_CONFIG' = API_KEY_CONFIG
         /\ (StoreFailed(req[r].store) /\ req'[r] # req[r])
               => /\ req'[r].pc = "done"
                  /\ req'[r].status = 401
                  /\ req'[r].upstream = 0
                  /\ \A d \in Dims : chk'[<<r, d>>].pc = "idle"
                  /\ applied' = applied]_vars

\* the store threw while another request's counters stand committed: the
\* request waits to be answered 401, none of its checks started
C38_Witness ==
    \E r \in Reqs :
        /\ req[r].pc = "usage_error"
        /\ req[r].store = "throws"
        /\ req[r].status = 401
        /\ req[r].upstream = 0
        /\ \A d \in Dims : chk[<<r, d>>].pc = "idle"
        /\ \E row \in committed : row.count >= 1
====
